---- MODULE Spec2Model ----
(***************************************************************************)
(* Model of pelican_ftp.py: one process run walks SUB_PATHS, uploads the   *)
(* locally modified files over one FTP session and touches the            *)
(* LAST_UPDATE_FILENAME marker.  The local clock, the local files and the  *)
(* FTP server's answers are the environment.                               *)
(***************************************************************************)
EXTENDS Integers, Sequences, FiniteSets, TLC

\* Largest value of the local clock.
MaxTime == 2

\* The manifest with its fifteenth entry repeating the images/*.png entry
\* under another permission mode.
SUB_PATHS_overlap ==
  << [sub_path |-> "",             file_spec |-> "*.html", perms |-> 664],
     [sub_path |-> "author",       file_spec |-> "*.html", perms |-> 664],
     [sub_path |-> "category",     file_spec |-> "*.html", perms |-> 664],
     [sub_path |-> "feeds",        file_spec |-> "*.xml",  perms |-> 664],
     [sub_path |-> "images",       file_spec |-> "*.jpg",  perms |-> 644],
     [sub_path |-> "images",       file_spec |-> "*.jpeg", perms |-> 644],
     [sub_path |-> "images",       file_spec |-> "*.png",  perms |-> 644],
     [sub_path |-> "images",       file_spec |-> "*.gif",  perms |-> 644],
     [sub_path |-> "pages",        file_spec |-> "*.html", perms |-> 664],
     [sub_path |-> "tags",         file_spec |-> "*.html", perms |-> 664],
     [sub_path |-> "theme/css",    file_spec |-> "*.css",  perms |-> 644],
     [sub_path |-> "theme/fonts",  file_spec |-> "*.otf",  perms |-> 644],
     [sub_path |-> "theme/fonts",  file_spec |-> "*.ttf",  perms |-> 644],
     [sub_path |-> "theme/images", file_spec |-> "*.jpg",  perms |-> 644],
     [sub_path |-> "images",       file_spec |-> "*.png",  perms |-> 664],
     [sub_path |-> "theme/js",     file_spec |-> "*.js",   perms |-> 644] >>

\* pelican_ftp.py:21-39
SUB_PATHS ==
  << [sub_path |-> "",             file_spec |-> "*.html", perms |-> 664],
     [sub_path |-> "author",       file_spec |-> "*.html", perms |-> 664],
     [sub_path |-> "category",     file_spec |-> "*.html", perms |-> 664],
     [sub_path |-> "feeds",        file_spec |-> "*.xml",  perms |-> 664],
     [sub_path |-> "images",       file_spec |-> "*.jpg",  perms |-> 644],
     [sub_path |-> "images",       file_spec |-> "*.jpeg", perms |-> 644],
     [sub_path |-> "images",       file_spec |-> "*.png",  perms |-> 644],
     [sub_path |-> "images",       file_spec |-> "*.gif",  perms |-> 644],
     [sub_path |-> "pages",        file_spec |-> "*.html", perms |-> 664],
     [sub_path |-> "tags",         file_spec |-> "*.html", perms |-> 664],
     [sub_path |-> "theme/css",    file_spec |-> "*.css",  perms |-> 644],
     [sub_path |-> "theme/fonts",  file_spec |-> "*.otf",  perms |-> 644],
     [sub_path |-> "theme/fonts",  file_spec |-> "*.ttf",  perms |-> 644],
     [sub_path |-> "theme/images", file_spec |-> "*.jpg",  perms |-> 644],
     [sub_path |-> "theme/images", file_spec |-> "*.png",  perms |-> 644],
     [sub_path |-> "theme/js",     file_spec |-> "*.js",   perms |-> 644] >>

\* The files below source_path: directory relative to source_path, the
\* part of the base name before the last dot, and the extension.
LocalFiles ==
  { [dir |-> "",       stem |-> "index", ext |-> "html"],
    [dir |-> "images", stem |-> "logo",  ext |-> "png"],
    [dir |-> "",       stem |-> "notes", ext |-> "txt"] }

\* os.path.basename(fs_obj)
basename(f) == f.stem \o "." \o f.ext

\* glob.glob(os.path.join(source_path, sub_path, file_spec)): the files
\* directly in sub_path whose name ends with the pattern's suffix.
glob(sub_path, file_spec) ==
  { f \in LocalFiles : f.dir = sub_path /\ file_spec = "*." \o f.ext }

\* The files some manifest entry matches.
Candidates ==
  UNION { glob(SUB_PATHS[i].sub_path, SUB_PATHS[i].file_spec) : i \in DOMAIN SUB_PATHS }

\* The return of line 64 going to the server root instead of the base.
base_path_root(remote_base) == "/"

\* os.path.join("/", remote_base): remote_base is a relative name or empty.
base_path(remote_base) == "/" \o remote_base

\* os.path.join("/", remote_base, sub_path) of upload_file.
remote_path(remote_base, sub_path) ==
  IF remote_base = "" THEN "/" \o sub_path
  ELSE "/" \o remote_base \o "/" \o sub_path

\* The marker file LAST_UPDATE_FILENAME when it does not exist.
NoMarker == [exists |-> FALSE, mtime |-> 0]

MarkerAt(t) == [exists |-> TRUE, mtime |-> t]


VARIABLES
  now,                    \* the local clock
  mtime,                  \* os.path.getmtime of every local file
  marker,                 \* the file creds.LAST_UPDATE_FILENAME
  pc,                     \* where the process is
  source_path,            \* options.source_path
  remote_base,            \* options.remote_base
  force_update,           \* options.force_update
  last_update_date_time,  \* the cutoff read at the start of the run
  count,                  \* the upload counter
  entry,                  \* index in SUB_PATHS of the entry being walked
  todo,                   \* files of glob.glob(...) still to visit for that entry
  session,                \* the ftplib.FTP object: "none", "open" or "closed"
  ftp_cwd,                \* the session's working directory on the server
  exit_status,            \* the process exit status, -1 while it runs
  attempted,              \* history: files passed to upload_file in this run
  stored,                 \* history: files whose STOR answered 226 in this run
  mtime_at_start,         \* history: every file's mtime when the run read the marker
  run_start,              \* history: the clock when the run read the marker
  marker_at_start,        \* history: the marker when the process started
  marker_reads,           \* history: reads of the marker in this run
  marker_writes,          \* history: writes of the marker in this run
  conn_attempts,          \* history: connection attempts of this run
  last_cmds,              \* history: FTP commands of the latest upload_file call
  batch_start,            \* history: run_start of the latest run that ended with count > 0
  chmod_failed,           \* history: files whose SITE CHMOD raised in this run
  owed                    \* history: per candidate, "failed" when its latest transfer
                          \* failed in a run whose cutoff it was newer than, "changed"
                          \* when it was rewritten, later than the run's cutoff, after
                          \* the walk had passed it, "no" once it is stored or rewritten
                          \* at another moment

vars ==
  << now, mtime, marker, pc, source_path, remote_base, force_update,
     last_update_date_time, count, entry, todo, session, ftp_cwd, exit_status,
     attempted, stored, mtime_at_start, run_start, marker_at_start,
     marker_reads, marker_writes, conn_attempts, last_cmds, batch_start,
     chmod_failed, owed >>

run_vars ==
  << pc, source_path, remote_base, force_update, last_update_date_time, count,
     entry, todo, session, ftp_cwd, exit_status, attempted, stored,
     mtime_at_start, run_start, marker_at_start, marker_reads, marker_writes,
     conn_attempts, last_cmds, batch_start, chmod_failed >>

\* What the server (or the local open) does to one upload_file call.
Outcomes == { "open_err", "cwd_err", "stor_err", "stor_not226", "chmod_err", "ok" }

\* Line 81: force_update or os.path.getmtime(fs_obj) > last_update_date_time
Qualifies(force, file_mtime, cutoff) == force \/ file_mtime > cutoff

\* Lines 68-72: the cutoff is the marker's mtime, or 0 when it does not exist.
Cutoff(m) == IF m.exists THEN m.mtime ELSE 0

\* The test of line 94 off by one.
ShouldTouch_more_than_one(c) == c > 1

\* Line 94
ShouldTouch(c) == c > 0

\* touch as a bug would have it: the marker is stamped with the epoch
\* instead of the current time.
touch_epoch(m, t) == MarkerAt(0)

\* Line 96: Path(creds.LAST_UPDATE_FILENAME).touch()
touch(m, t) == MarkerAt(t)

\* Line 91
count_after(c) == c + 1

\* The session handling without the with block: the session is closed at
\* the end of the walk only, and an exception leaves it as it is.
with_exit_leak(s, raised) == IF raised THEN s ELSE "closed"

\* Leaving the "with ftplib.FTP(...)" block of line 76, normally or by an
\* exception: FTP.__exit__ closes the session.
with_exit(s, raised) == "closed"

\* The exit status if main swallowed the exceptions of the run.
exit_status_swallow(how) == IF how = "config_error" THEN 1 ELSE 0

\* Exit status of the process: sys.exit(1) of line 125, an exception that
\* leaves main, or main returning.
exit_status_of(how) ==
  CASE how = "config_error" -> 1
    [] how = "exception"    -> 1
    [] how = "returned"     -> 0

\* upload_file without the else of line 56: the permission change is sent
\* after every STOR that returned, whatever its answer.
upload_file_chmod_always(conn_cwd, filename, rbase, sub_path, permissions_int, o, back) ==
  LET rpath     == remote_path(rbase, sub_path)
      c_cwd     == IF o = "open_err" THEN << >>
                   ELSE << [cmd |-> "CWD", arg |-> rpath, mode |-> 0] >>
      in_dir    == o \notin { "open_err", "cwd_err" }
      c_stor    == IF in_dir
                   THEN << [cmd |-> "STOR", arg |-> filename, mode |-> 0] >>
                   ELSE << >>
      res_226   == o \in { "ok", "chmod_err" }
      c_chmod   == IF o \in { "ok", "chmod_err", "stor_not226" }
                   THEN << [cmd |-> "SITE CHMOD", arg |-> filename,
                            mode |-> permissions_int] >>
                   ELSE << >>
      c_back    == << [cmd |-> "CWD", arg |-> base_path(rbase), mode |-> 0] >>
  IN  [ cmds   |-> c_cwd \o c_stor \o c_chmod \o c_back,
        stored |-> res_226,
        raised |-> (back = "err"),
        cwd    |-> IF back = "ok" THEN base_path(rbase)
                   ELSE IF in_dir THEN rpath ELSE conn_cwd ]

\* upload_file with the SITE CHMOD of line 58 outside the try block: its
\* failure leaves the call as an exception.
upload_file_chmod_fatal(conn_cwd, filename, rbase, sub_path, permissions_int, o, back) ==
  LET rpath     == remote_path(rbase, sub_path)
      c_cwd     == IF o = "open_err" THEN << >>
                   ELSE << [cmd |-> "CWD", arg |-> rpath, mode |-> 0] >>
      in_dir    == o \notin { "open_err", "cwd_err" }
      c_stor    == IF in_dir
                   THEN << [cmd |-> "STOR", arg |-> filename, mode |-> 0] >>
                   ELSE << >>
      res_226   == o \in { "ok", "chmod_err" }
      c_chmod   == IF res_226
                   THEN << [cmd |-> "SITE CHMOD", arg |-> filename,
                            mode |-> permissions_int] >>
                   ELSE << >>
      c_back    == IF o = "chmod_err" THEN << >>
                   ELSE << [cmd |-> "CWD", arg |-> base_path(rbase), mode |-> 0] >>
  IN  [ cmds   |-> c_cwd \o c_stor \o c_chmod \o c_back,
        stored |-> res_226,
        raised |-> (back = "err" \/ o = "chmod_err"),
        cwd    |-> IF back = "ok" /\ o # "chmod_err" THEN base_path(rbase)
                   ELSE IF in_dir THEN rpath ELSE conn_cwd ]

\* upload_file, lines 42-64: the commands sent in order, whether STOR
\* answered 226, whether the cwd of line 64 raised, and the working
\* directory afterwards.  "o" is what happens inside the try block, "back"
\* what the cwd of line 64 does.
upload_file(conn_cwd, filename, rbase, sub_path, permissions_int, o, back) ==
  LET rpath     == remote_path(rbase, sub_path)
      c_cwd     == IF o = "open_err" THEN << >>
                   ELSE << [cmd |-> "CWD", arg |-> rpath, mode |-> 0] >>
      in_dir    == o \notin { "open_err", "cwd_err" }
      c_stor    == IF in_dir
                   THEN << [cmd |-> "STOR", arg |-> filename, mode |-> 0] >>
                   ELSE << >>
      res_226   == o \in { "ok", "chmod_err" }
      c_chmod   == IF res_226
                   THEN << [cmd |-> "SITE CHMOD", arg |-> filename,
                            mode |-> permissions_int] >>
                   ELSE << >>
      c_back    == << [cmd |-> "CWD", arg |-> base_path(rbase), mode |-> 0] >>
  IN  [ cmds   |-> c_cwd \o c_stor \o c_chmod \o c_back,
        stored |-> res_226,
        raised |-> (back = "err"),
        cwd    |-> IF back = "ok" THEN base_path(rbase)
                   ELSE IF in_dir THEN rpath ELSE conn_cwd ]

Init ==
  /\ now = 1
  /\ mtime \in [LocalFiles -> 0..now]
  /\ marker \in { NoMarker } \cup { MarkerAt(t) : t \in 0..now }
  /\ pc = "idle"
  /\ source_path = ""
  /\ remote_base = ""
  /\ force_update = FALSE
  /\ last_update_date_time = 0
  /\ count = 0
  /\ entry = 0
  /\ todo = {}
  /\ session = "none"
  /\ ftp_cwd = "/"
  /\ exit_status = -1
  /\ attempted = {}
  /\ stored = {}
  /\ mtime_at_start = mtime
  /\ run_start = 0
  /\ marker_at_start = marker
  /\ marker_reads = 0
  /\ marker_writes = 0
  /\ conn_attempts = 0
  /\ last_cmds = << >>
  /\ batch_start = marker.mtime
  /\ chmod_failed = {}
  /\ owed = [ f \in Candidates |-> "no" ]

\* The clock advances.
Tick ==
  /\ now < MaxTime
  /\ now' = now + 1
  /\ UNCHANGED << mtime, marker, owed >>
  /\ UNCHANGED run_vars

\* The running walk has finished its pass for file f: the file's entry
\* has been listed and the file is no longer waiting in it.
Passed(f) ==
  /\ pc \in { "walk", "report" }
  /\ f \notin todo
  /\ \E i \in 1..entry :
       f \in glob(SUB_PATHS[i].sub_path, SUB_PATHS[i].file_spec)

\* The site is regenerated: a local file is rewritten.  Only files some
\* manifest entry lists are followed: line 81 reads the mtime of no other.
Modify ==
  /\ \E f \in Candidates :
       /\ mtime[f] # now
       /\ mtime' = [mtime EXCEPT ![f] = now]
       /\ owed' = [owed EXCEPT
                     ![f] = IF Passed(f) /\ now > last_update_date_time
                            THEN "changed" ELSE "no"]
  /\ UNCHANGED << now, marker >>
  /\ UNCHANGED run_vars

\* handle_options without the sys.exit(1) of line 125: the error is logged
\* and the options are returned.
handle_options_no_exit ==
  /\ pc \in { "idle", "done", "aborted", "exited" }
  /\ \E sp \in { "", "output" }, rb \in { "", "www" }, fu \in BOOLEAN :
       /\ source_path' = sp
       /\ remote_base' = rb
       /\ force_update' = fu
       /\ pc' = "check"
       /\ exit_status' = -1
  /\ last_update_date_time' = 0
  /\ count' = 0
  /\ entry' = 0
  /\ todo' = {}
  /\ session' = "none"
  /\ ftp_cwd' = "/"
  /\ attempted' = {}
  /\ stored' = {}
  /\ mtime_at_start' = mtime
  /\ run_start' = 0
  /\ marker_at_start' = marker
  /\ marker_reads' = 0
  /\ marker_writes' = 0
  /\ conn_attempts' = 0
  /\ last_cmds' = << >>
  /\ chmod_failed' = {}
  /\ UNCHANGED << now, mtime, marker, batch_start, owed >>

\* main, lines 130-135, up to the return of handle_options (lines 99-127):
\* a new process is started with its command line.
handle_options ==
  /\ pc \in { "idle", "done", "aborted", "exited" }
  /\ \E sp \in { "", "output" }, rb \in { "", "www" }, fu \in BOOLEAN :
       /\ source_path' = sp
       /\ remote_base' = rb
       /\ force_update' = fu
       /\ IF sp = ""
          THEN /\ pc' = "exited"
               /\ exit_status' = exit_status_of("config_error")
          ELSE /\ pc' = "check"
               /\ exit_status' = -1
  /\ last_update_date_time' = 0
  /\ count' = 0
  /\ entry' = 0
  /\ todo' = {}
  /\ session' = "none"
  /\ ftp_cwd' = "/"
  /\ attempted' = {}
  /\ stored' = {}
  /\ mtime_at_start' = mtime
  /\ run_start' = 0
  /\ marker_at_start' = marker
  /\ marker_reads' = 0
  /\ marker_writes' = 0
  /\ conn_attempts' = 0
  /\ last_cmds' = << >>
  /\ chmod_failed' = {}
  /\ UNCHANGED << now, mtime, marker, batch_start, owed >>

\* check_and_upload_files, lines 68-74: read the cutoff, reset the counter.
ReadMarker ==
  /\ pc = "check"
  /\ last_update_date_time' = Cutoff(marker)
  /\ count' = 0
  /\ run_start' = now
  /\ marker_reads' = marker_reads + 1
  /\ mtime_at_start' = mtime
  /\ pc' = "connect"
  /\ UNCHANGED << now, mtime, marker, source_path, remote_base, force_update,
                  entry, todo, session, ftp_cwd, exit_status, attempted, stored,
                  marker_at_start, marker_writes, conn_attempts, last_cmds,
                  batch_start, chmod_failed, owed >>

\* The connection retried after a failure.
Connect_retry ==
  /\ pc = "connect"
  /\ conn_attempts' = conn_attempts + 1
  /\ \E ok \in BOOLEAN :
       IF ok
       THEN /\ session' = "open"
            /\ pc' = "walk"
            /\ exit_status' = exit_status
       ELSE /\ session' = session
            /\ pc' = "connect"
            /\ exit_status' = exit_status
  /\ UNCHANGED << now, mtime, marker, source_path, remote_base, force_update,
                  last_update_date_time, count, entry, todo, ftp_cwd, attempted,
                  stored, mtime_at_start, run_start, marker_at_start,
                  marker_reads, marker_writes, last_cmds,
                  batch_start, chmod_failed, owed >>

\* Line 76: ftplib.FTP(host, user, passwd) connects and logs in, or raises.
Connect ==
  /\ pc = "connect"
  /\ conn_attempts' = conn_attempts + 1
  /\ \E ok \in BOOLEAN :
       IF ok
       THEN /\ session' = "open"
            /\ pc' = "walk"
            /\ exit_status' = exit_status
       ELSE /\ session' = session
            /\ pc' = "aborted"
            /\ exit_status' = exit_status_of("exception")
  /\ UNCHANGED << now, mtime, marker, source_path, remote_base, force_update,
                  last_update_date_time, count, entry, todo, ftp_cwd, attempted,
                  stored, mtime_at_start, run_start, marker_at_start,
                  marker_reads, marker_writes, last_cmds,
                  batch_start, chmod_failed, owed >>

\* Line 78, and line 79's glob.glob: the walk moves to the next manifest
\* entry and lists its files.
NextEntry ==
  /\ pc = "walk"
  /\ todo = {}
  /\ entry < Len(SUB_PATHS)
  /\ entry' = entry + 1
  /\ todo' = glob(SUB_PATHS[entry + 1].sub_path, SUB_PATHS[entry + 1].file_spec)
  /\ UNCHANGED << now, mtime, marker, pc, source_path, remote_base, force_update,
                  last_update_date_time, count, session, ftp_cwd, exit_status,
                  attempted, stored, mtime_at_start, run_start, marker_at_start,
                  marker_reads, marker_writes, conn_attempts, last_cmds,
                  batch_start, chmod_failed, owed >>

\* Lines 79-91, one pass of the inner loop for one listed file: the test of
\* line 81, the call of upload_file and the increment of line 91.  An
\* exception raised by line 64 leaves upload_file, the loops and the with
\* block (which closes the session), and ends the process.  new_marker is
\* the marker after the pass.
ProcessFileStep(new_marker) ==
  /\ pc = "walk"
  /\ \E f \in todo :
       /\ todo' = todo \ { f }
       /\ IF Qualifies(force_update, mtime[f], last_update_date_time)
          THEN \E o \in Outcomes, back \in { "ok", "err" } :
                 LET r == upload_file(ftp_cwd, basename(f), remote_base,
                                      SUB_PATHS[entry].sub_path,
                                      SUB_PATHS[entry].perms, o, back)
                 IN  /\ attempted' = attempted \cup { f }
                     /\ stored' = IF r.stored THEN stored \cup { f } ELSE stored
                     /\ chmod_failed' = IF o = "chmod_err"
                                         THEN chmod_failed \cup { f }
                                         ELSE chmod_failed
                     /\ owed' = [owed EXCEPT
                                   ![f] = IF r.stored THEN "no"
                                          ELSE IF mtime[f] > last_update_date_time
                                          THEN "failed"
                                          ELSE owed[f]]
                     /\ last_cmds' = r.cmds
                     /\ ftp_cwd' = r.cwd
                     /\ IF r.raised
                        THEN /\ count' = count
                             /\ session' = with_exit(session, TRUE)
                             /\ pc' = "aborted"
                             /\ exit_status' = exit_status_of("exception")
                        ELSE /\ count' = count_after(count)
                             /\ session' = session
                             /\ pc' = pc
                             /\ exit_status' = exit_status
          ELSE UNCHANGED << attempted, stored, chmod_failed, owed, last_cmds,
                            ftp_cwd, count, session, pc, exit_status >>
  /\ marker' = new_marker
  /\ marker_writes' = IF new_marker = marker THEN marker_writes
                      ELSE marker_writes + 1
  /\ UNCHANGED << now, mtime, source_path, remote_base, force_update,
                  last_update_date_time, entry, mtime_at_start, run_start,
                  marker_at_start, marker_reads, conn_attempts, batch_start >>

\* The loop body with the touch of line 96 moved into it.
ProcessFile_touch_each == ProcessFileStep(touch(marker, now))

\* The loop body as written: it leaves the marker alone.
ProcessFile == ProcessFileStep(marker)

\* The end of the with block of line 76 after the last manifest entry:
\* FTP.__exit__ sends QUIT and closes the session; an error reply to QUIT
\* is raised after the close and ends the process.
LeaveWith ==
  /\ pc = "walk"
  /\ todo = {}
  /\ entry = Len(SUB_PATHS)
  /\ \E quit_ok \in BOOLEAN :
       /\ session' = with_exit(session, ~quit_ok)
       /\ IF quit_ok
          THEN /\ pc' = "report"
               /\ exit_status' = exit_status
          ELSE /\ pc' = "aborted"
               /\ exit_status' = exit_status_of("exception")
  /\ UNCHANGED << now, mtime, marker, source_path, remote_base, force_update,
                  last_update_date_time, count, entry, todo, ftp_cwd, attempted,
                  stored, mtime_at_start, run_start, marker_at_start,
                  marker_reads, marker_writes, conn_attempts, last_cmds,
                  batch_start, chmod_failed, owed >>

\* Lines 93-96 and the return to main: report the count, touch the marker
\* when it is positive, and end the process.
Finish ==
  /\ pc = "report"
  /\ IF ShouldTouch(count)
     THEN /\ marker' = touch(marker, now)
          /\ marker_writes' = marker_writes + 1
          /\ batch_start' = run_start
     ELSE UNCHANGED << marker, marker_writes, batch_start >>
  /\ pc' = "done"
  /\ exit_status' = exit_status_of("returned")
  /\ UNCHANGED << now, mtime, source_path, remote_base, force_update,
                  last_update_date_time, count, entry, todo, session, ftp_cwd,
                  attempted, stored, mtime_at_start, run_start, marker_at_start,
                  marker_reads, conn_attempts, last_cmds, chmod_failed, owed >>

Next ==
  \/ Tick
  \/ Modify
  \/ handle_options
  \/ ReadMarker
  \/ Connect
  \/ NextEntry
  \/ ProcessFile
  \/ LeaveWith
  \/ Finish

Spec == Init /\ [][Next]_vars


(***************************************************************************)
(* Shorthands of the claims.                                               *)
(***************************************************************************)

\* The process has ended after the session was opened.
RunEnded == pc \in { "done", "aborted" } /\ session # "none"

\* The walk has visited every manifest entry and every listed file.
WalkComplete == entry = Len(SUB_PATHS) /\ todo = {}

\* The files that qualified when the run read the marker.
QualifiedAtStart ==
  { f \in Candidates :
      force_update \/ mtime_at_start[f] > Cutoff(marker_at_start) }

(***************************************************************************)
(* The claims.                                                             *)
(***************************************************************************)

\* C1 (as claimed): an error while a qualifying file is handled never
\* aborts the run: when the process has ended, every file that qualified
\* has been passed to upload_file.
C1_ErrorsNeverAbortTheWalk ==
  (RunEnded /\ attempted # {}) => QualifiedAtStart \subseteq attempted

\* C2 (as claimed): at the end of a run the upload counter is the number of
\* files whose STOR answered 226 in that run.
C2_CountIsNumberStored ==
  pc = "done" => count = Cardinality(stored)

\* C3 (as claimed): a run in which no STOR completed successfully leaves
\* the marker as it was, existence and modification time.
C3_NoUploadLeavesMarker ==
  (RunEnded /\ stored = {}) => marker = marker_at_start

\* C4 (as claimed): without force_update and with a marker of time T, no
\* file of time <= T is passed to upload_file and every candidate of
\* time > T has been passed to it when the run ends.
C4_NewerFilesAlwaysAttempted ==
  (RunEnded /\ ~force_update /\ marker_at_start.exists) =>
    /\ \A f \in attempted : mtime[f] > marker_at_start.mtime
    /\ \A f \in Candidates :
         mtime_at_start[f] > marker_at_start.mtime => f \in attempted

\* C5 (as claimed): the marker's time never exceeds the start time of the
\* latest run that ended with a positive upload counter.
C5_MarkerNotAfterBatchStart ==
  marker.exists => marker.mtime <= batch_start

\* C5 (amended): the marker's time is the time at which the latest run with
\* a positive upload counter finished: it is at least that run's start
\* time and never later than the clock.
C5_MarkerBetweenBatchStartAndNow ==
  marker.exists => (batch_start <= marker.mtime /\ marker.mtime <= now)

\* C5 witness: a run took time and touched the marker after it began.
C5_Witness ==
  /\ pc = "done"
  /\ marker_writes = 1
  /\ marker.mtime > batch_start
  /\ stored # {}

\* C6: in one run the marker is read once, before the connection, and
\* written at most once, and only by the step that follows the complete
\* walk and the closing of the session; a process that was aborted leaves
\* the marker as it was.
C6_MarkerReadOnceWrittenAfterWalk ==
  /\ [](/\ marker_reads <= 1
        /\ marker_writes <= 1
        /\ (pc \in { "connect", "walk", "report", "done", "aborted" } => marker_reads = 1)
        /\ (pc = "aborted" => marker = marker_at_start))
  /\ [][marker' # marker =>
          /\ pc = "report"
          /\ WalkComplete
          /\ session = "closed"
          /\ marker_writes = 0]_vars

\* C6 witness: two files were uploaded and the marker was written once.
C6_Witness ==
  /\ pc = "done"
  /\ Cardinality(attempted) = 2
  /\ marker_writes = 1
  /\ marker # marker_at_start

\* C7 (as claimed): with force_update every file a manifest entry matches
\* has been passed to upload_file when the run ends.
C7_ForceAttemptsEveryCandidate ==
  (RunEnded /\ force_update) => Candidates \subseteq attempted

\* C8 (as claimed): when the marker does not exist at the start, every file
\* a manifest entry matches has been passed to upload_file when the run
\* returns, whatever its modification time.
C8_NoMarkerAttemptsEveryCandidate ==
  (pc = "done" /\ ~marker_at_start.exists) => Candidates \subseteq attempted

\* C9 (as claimed): the exit status is non-zero only for an empty source
\* path.
C9_NonZeroOnlyForEmptySourcePath ==
  exit_status \notin { -1, 0 } => source_path = ""

\* C9 (amended): the exit status is 1 for an empty source path and when an
\* exception leaves check_and_upload_files, and 0 when it returns, however
\* many files failed inside upload_file.
C9_ExitStatusByEnding ==
  /\ pc = "exited" => (exit_status = 1 /\ source_path = "")
  /\ pc = "aborted" => (exit_status = 1 /\ source_path # "")
  /\ pc = "done" => (exit_status = 0 /\ source_path # "")
  /\ pc \in { "idle", "check", "connect", "walk", "report" } => exit_status = -1

\* C9 witness: every attempted file failed and the process returned 0.
C9_Witness ==
  /\ pc = "done"
  /\ exit_status = 0
  /\ Cardinality(attempted) = 2
  /\ stored = {}

\* C10: the session is open only while the walk runs: it is closed when
\* the walk has ended, normally or by an exception that leaves it, and the
\* marker changes only with the session closed.
C10_SessionClosedOnEveryExit ==
  /\ [](session = "open" => pc = "walk")
  /\ [](RunEnded => session = "closed")
  /\ [][marker' # marker => session = "closed"]_vars

\* C10 witness: an exception left the walk before its end and the session
\* is closed.
C10_Witness ==
  /\ pc = "aborted"
  /\ attempted # {}
  /\ ~WalkComplete
  /\ session = "closed"


\* The names of the commands of a command sequence, in order.
CmdNames(cs) == [ k \in DOMAIN cs |-> cs[k].cmd ]

\* The commands of a command sequence that carry the name c.
CmdsNamed(cs, c) == { k \in DOMAIN cs : cs[k].cmd = c }

\* The manifest entries that list file f.
EntriesOf(f) ==
  { i \in DOMAIN SUB_PATHS : f \in glob(SUB_PATHS[i].sub_path, SUB_PATHS[i].file_spec) }

\* C12: with an empty source path the process exits with status 1 and has
\* done nothing else: no connection attempt, no session, no manifest entry
\* walked, no file attempted, no FTP command, the marker neither read nor
\* written.
C12_EmptySourcePathExitsBeforeAnything ==
  (source_path = "" /\ pc # "idle") =>
    /\ pc = "exited"
    /\ exit_status = 1
    /\ conn_attempts = 0
    /\ session = "none"
    /\ entry = 0
    /\ attempted = {}
    /\ last_cmds = << >>
    /\ marker_reads = 0
    /\ marker_writes = 0
    /\ marker = marker_at_start

\* C12 witness: a process given an empty source path has exited, after an
\* earlier process had uploaded and touched the marker.
C12_Witness ==
  /\ pc = "exited"
  /\ source_path = ""
  /\ exit_status = 1
  /\ marker.exists
  /\ marker.mtime = MaxTime

\* C13: when a run that stored at least one file has returned, the marker
\* exists and its time is at least the run's start time.
C13_UploadTouchesMarker ==
  (pc = "done" /\ stored # {}) =>
    (marker.exists /\ marker.mtime >= run_start)

\* C13 witness: the marker did not exist, one file was stored, the run has
\* returned and the marker exists.
C13_Witness ==
  /\ pc = "done"
  /\ Cardinality(stored) = 1
  /\ ~marker_at_start.exists
  /\ marker.exists
  /\ marker.mtime >= run_start

\* C14: a run makes one connection attempt, before anything else on the
\* network; when it fails the process ends by the exception with no second
\* attempt, no manifest entry walked, no file attempted and the marker as
\* it was.
C14_OneConnectionAttempt ==
  /\ conn_attempts <= 1
  /\ pc \in { "idle", "check", "connect", "exited" } => conn_attempts = 0
  /\ pc \in { "walk", "report", "done" } => (conn_attempts = 1 /\ session # "none")
  /\ (pc = "aborted" /\ session = "none") =>
       /\ conn_attempts = 1
       /\ exit_status = 1
       /\ entry = 0
       /\ attempted = {}
       /\ last_cmds = << >>
       /\ marker_writes = 0
       /\ marker = marker_at_start

\* C14 witness: the login failed and the process has ended.
C14_Witness ==
  /\ pc = "aborted"
  /\ session = "none"
  /\ conn_attempts = 1
  /\ marker.exists

\* C15: whenever upload_file has returned to the loop the session's working
\* directory is "/" followed by remote_base, whatever happened inside the
\* call.
C15_ReturnsToBaseDirectory ==
  (pc = "walk" /\ attempted # {}) => ftp_cwd = "/" \o remote_base

\* C15 witness: the directory change to the remote subdirectory failed in
\* the latest call (only the two directory changes were sent) and the
\* working directory is /www.
C15_Witness ==
  /\ pc = "walk"
  /\ attempted # {}
  /\ remote_base = "www"
  /\ CmdNames(last_cmds) = << "CWD", "CWD" >>
  /\ ftp_cwd = "/www"

\* C16: the commands of one upload_file call are, in this order, the
\* directory change to the remote directory, STOR, SITE CHMOD and the
\* directory change to the base, a failure cutting the first three short;
\* SITE CHMOD is sent exactly in the calls whose STOR answered 226.
C16_CommandOrderAndChmodIff226 ==
  /\ [](last_cmds # << >> =>
          /\ CmdNames(last_cmds) \in
               { << "CWD" >>,
                 << "CWD", "CWD" >>,
                 << "CWD", "STOR", "CWD" >>,
                 << "CWD", "STOR", "SITE CHMOD", "CWD" >> }
          /\ last_cmds[Len(last_cmds)].arg = "/" \o remote_base)
  /\ [][attempted' \ attempted # {} =>
          (CmdsNamed(last_cmds', "SITE CHMOD") # {} <=> stored' # stored)]_vars

\* C16 witness: the latest call sent STOR, the transfer failed and no
\* SITE CHMOD followed.
C16_Witness ==
  /\ pc = "walk"
  /\ attempted # {}
  /\ stored = {}
  /\ CmdNames(last_cmds) = << "CWD", "STOR", "CWD" >>

\* No two entries of the table share subdirectory and pattern, and no
\* local file is listed by two of them.
EntriesDisjoint ==
  \A i, j \in DOMAIN SUB_PATHS :
    i # j =>
      /\ ~(/\ SUB_PATHS[i].sub_path = SUB_PATHS[j].sub_path
           /\ SUB_PATHS[i].file_spec = SUB_PATHS[j].file_spec)
      /\ glob(SUB_PATHS[i].sub_path, SUB_PATHS[i].file_spec)
           \cap glob(SUB_PATHS[j].sub_path, SUB_PATHS[j].file_spec) = {}

\* C19: no two manifest entries share subdirectory and pattern or list a
\* common file; no file is passed to upload_file twice in a run (the
\* counter never exceeds the number of distinct files attempted); and the
\* call for a file goes to the remote subdirectory of the one entry that
\* lists it, stores it under its base name and sends that entry's mode.
C19_EntriesDisjointOneAttemptEach ==
  /\ [](/\ Len(SUB_PATHS) = 16
        /\ EntriesDisjoint
        /\ count <= Cardinality(attempted))
  /\ [][attempted' \ attempted # {} =>
          \E f \in attempted' \ attempted :
            /\ attempted' = attempted \cup { f }
            /\ EntriesOf(f) = { entry }
            /\ \A k \in DOMAIN last_cmds' :
                 LET c == last_cmds'[k]
                 IN  /\ (c.cmd = "CWD" /\ k < Len(last_cmds')) =>
                           c.arg = remote_path(remote_base, f.dir)
                     /\ c.cmd = "STOR" => c.arg = f.stem \o "." \o f.ext
                     /\ c.cmd = "SITE CHMOD" =>
                           /\ c.arg = f.stem \o "." \o f.ext
                           /\ c.mode = SUB_PATHS[entry].perms]_vars

\* C19 witness: two files of two entries were each stored once, and the
\* latest permission change carried mode 644 for images/logo.png.
C19_Witness ==
  /\ pc = "done"
  /\ Cardinality(attempted) = 2
  /\ stored = attempted
  /\ count = 2
  /\ \E k \in DOMAIN last_cmds :
       /\ last_cmds[k].cmd = "SITE CHMOD"
       /\ last_cmds[k].arg = "logo.png"
       /\ last_cmds[k].mode = 644


\* C11: a SITE CHMOD that fails after a 226 changes nothing for the file
\* and the run: every call the walk is about to make ends exactly as with
\* a successful SITE CHMOD
\* (same commands, same result, same working directory), the file stays
\* stored and is counted when the call returns, and a run that returns
\* after it has touched the marker.
C11_ChmodFailureChangesNothing ==
  /\ [](/\ chmod_failed \subseteq stored
        /\ pc \in { "walk", "report", "done" } => count >= Cardinality(chmod_failed)
        /\ (pc = "done" /\ chmod_failed # {}) =>
             /\ marker_writes = 1
             /\ marker.exists
             /\ marker.mtime >= run_start
        /\ (pc = "walk" /\ todo # {}) =>
             \A f \in todo, back \in { "ok", "err" } :
               upload_file(ftp_cwd, basename(f), remote_base,
                           SUB_PATHS[entry].sub_path, SUB_PATHS[entry].perms,
                           "chmod_err", back)
                 = upload_file(ftp_cwd, basename(f), remote_base,
                               SUB_PATHS[entry].sub_path, SUB_PATHS[entry].perms,
                               "ok", back))
  /\ [][(chmod_failed' \ chmod_failed # {} /\ pc' = "walk") =>
          /\ count' = count + 1
          /\ stored' \ stored = chmod_failed' \ chmod_failed]_vars

\* C11 witness: the SITE CHMOD for index.html failed, the walk went on to
\* images/logo.png, both files were counted and the marker was touched.
C11_Witness ==
  /\ pc = "done"
  /\ chmod_failed = { f \in Candidates : f.ext = "html" }
  /\ chmod_failed # {}
  /\ Cardinality(attempted) = 2
  /\ count = 2
  /\ marker_writes = 1
  /\ marker # marker_at_start

\* C17 (as claimed): a file whose latest transfer failed and that was not
\* rewritten since qualifies when the next run without force_update has
\* read its cutoff.
C17_FailedFileQualifiesAgain ==
  (pc = "connect" /\ ~force_update) =>
    \A f \in Candidates :
      owed[f] = "failed" => mtime[f] > last_update_date_time

\* C18 (as claimed): a file rewritten while a run was in progress, after
\* the walk had passed it and before the marker was touched, qualifies
\* when the next run without force_update has read its cutoff.
C18_ChangeDuringRunQualifiesNext ==
  (pc = "connect" /\ ~force_update) =>
    \A f \in Candidates :
      owed[f] = "changed" => mtime[f] > last_update_date_time

====
